---- MODULE Spec2Model ----
(***************************************************************************)
(* Model of the two serverless handlers of the PDFoster creative API:      *)
(*   - the Creative Generator (netlify/functions/generate-creative.js),    *)
(*     with its helpers generateImage, generateVideo and logUsage;         *)
(*   - the Video Status Checker (the second source file).                  *)
(*                                                                         *)
(* One request is in flight at a time (the handlers share no state).  A    *)
(* handler runs from one `await` to the next in one action: Receive runs   *)
(* up to the vendor fetch, VendorReturns up to the usage-log fetch (or     *)
(* the response), LogReturns up to the response.                           *)
(*                                                                         *)
(* JavaScript values are records [k |-> kind, v |-> text] where text is    *)
(* the value's string form as a sequence of characters; JSON objects are   *)
(* functions from field names to such values.                              *)
(***************************************************************************)
EXTENDS Integers, Sequences, FiniteSets, TLC

(* ---------------- string literals, as sequences of characters --------- *)
s_image == <<"i", "m", "a", "g", "e">>
s_video == <<"v", "i", "d", "e", "o">>
s_audio == <<"a", "u", "d", "i", "o">>
s_Image == <<"I", "m", "a", "g", "e">>
s_cat == <<"a", " ", "c", "a", "t">>
s_c1 == <<"c", "1">>
s_hd == <<"h", "d">>
s_standard == <<"s", "t", "a", "n", "d", "a", "r", "d">>
s_HD == <<"H", "D">>
s_1024x1024 == <<"1", "0", "2", "4", "x", "1", "0", "2", "4">>
s_1792x1024 == <<"1", "7", "9", "2", "x", "1", "0", "2", "4">>
s_1024x1792 == <<"1", "0", "2", "4", "x", "1", "7", "9", "2">>
s_179x2 == <<"1", "7", "9", "x", "2">>
s_1792 == <<"1", "7", "9", "2">>
s_SUCCEEDED == <<"S", "U", "C", "C", "E", "E", "D", "E", "D">>
s_FAILED == <<"F", "A", "I", "L", "E", "D">>
s_RUNNING == <<"R", "U", "N", "N", "I", "N", "G">>
s_succeeded == <<"s", "u", "c", "c", "e", "e", "d", "e", "d">>
s_completed == <<"c", "o", "m", "p", "l", "e", "t", "e", "d">>
s_failed == <<"f", "a", "i", "l", "e", "d">>
s_processing == <<"p", "r", "o", "c", "e", "s", "s", "i", "n", "g">>
s_u1 == <<"u", "1">>
s_u2 == <<"u", "2">>
s_abc == <<"a", "b", "c">>
s_t1 == <<"t", "1">>
s_rp == <<"r", "p">>
s_half == <<"0", ".", "5">>
s_zero == <<"0">>
s_seven == <<"7">>
s_five == <<"5">>
s_true == <<"t", "r", "u", "e">>
s_false == <<"f", "a", "l", "s", "e">>
s_null == <<"n", "u", "l", "l">>
s_undefined == <<"u", "n", "d", "e", "f", "i", "n", "e", "d">>
s_objectObject == <<"[", "o", "b", "j", "e", "c", "t", " ", "O", "b", "j", "e",
    "c", "t", "]">>
s_MethodNotAllowed == <<"M", "e", "t", "h", "o", "d", " ", "n", "o", "t", " ",
    "a", "l", "l", "o", "w", "e", "d">>
s_MissingRequired == <<"M", "i", "s", "s", "i", "n", "g", " ", "r", "e", "q",
    "u", "i", "r", "e", "d", " ", "f", "i", "e", "l", "d", "s", ":", " ", "t",
    "y", "p", "e", ",", " ", "p", "r", "o", "m", "p", "t">>
s_UnknownType == <<"U", "n", "k", "n", "o", "w", "n", " ", "t", "y", "p", "e",
    ":", " ">>
s_UseImageOrVideo == <<".", " ", "U", "s", "e", " ", "\"", "i", "m", "a", "g",
    "e", "\"", " ", "o", "r", " ", "\"", "v", "i", "d", "e", "o", "\"">>
s_OpenAiKeyMissing == <<"O", "P", "E", "N", "A", "I", "_", "A", "P", "I", "_",
    "K", "E", "Y", " ", "n", "o", "t", " ", "c", "o", "n", "f", "i", "g", "u",
    "r", "e", "d">>
s_RunwayKeyMissing == <<"R", "U", "N", "W", "A", "Y", "_", "A", "P", "I", "_",
    "K", "E", "Y", " ", "n", "o", "t", " ", "c", "o", "n", "f", "i", "g", "u",
    "r", "e", "d">>
s_MissingTaskId == <<"M", "i", "s", "s", "i", "n", "g", " ", "t", "a", "s",
    "k", "_", "i", "d", " ", "p", "a", "r", "a", "m", "e", "t", "e", "r">>
s_GenerationFailed == <<"G", "e", "n", "e", "r", "a", "t", "i", "o", "n", " ",
    "f", "a", "i", "l", "e", "d">>
s_dalle3 == <<"d", "a", "l", "l", "-", "e", "-", "3">>
s_gen3a == <<"g", "e", "n", "3", "a", "_", "t", "u", "r", "b", "o">>
s_tasksUrl == <<"h", "t", "t", "p", "s", ":", "/", "/", "a", "p", "i", ".",
    "d", "e", "v", ".", "r", "u", "n", "w", "a", "y", "m", "l", ".", "c", "o",
    "m", "/", "v", "1", "/", "t", "a", "s", "k", "s", "/">>
s_note == <<"V", "i", "d", "e", "o", " ", "i", "s", " ", "g", "e", "n", "e",
    "r", "a", "t", "i", "n", "g", ".", " ", "P", "o", "l", "l", " ", "t", "h",
    "e", " ", "t", "a", "s", "k", "_", "i", "d", " ", "e", "n", "d", "p", "o",
    "i", "n", "t", " ", "f", "o", "r", " ", "c", "o", "m", "p", "l", "e", "t",
    "i", "o", "n", ".">>
s_c004 == <<"0", ".", "0", "4">>
s_c008 == <<"0", ".", "0", "8">>
s_c012 == <<"0", ".", "1", "2">>
s_c0015 == <<"0", ".", "0", "1", "5">>
s_c05 == <<"0", ".", "5">>
s_SyntaxError == <<"U", "n", "e", "x", "p", "e", "c", "t", "e", "d", " ", "t",
    "o", "k", "e", "n">>
s_TypeError == <<"T", "y", "p", "e", "E", "r", "r", "o", "r">>
s_vendorError == <<"v", "e", "n", "d", "o", "r", " ", "e", "r", "r", "o",
    "r">>
s_fetchFailed == <<"f", "e", "t", "c", "h", " ", "f", "a", "i", "l", "e",
    "d">>
s_stack == <<"s", "t", "a", "c", "k">>

(* ---------------- bounds ---------------------------------------------- *)
\* longest output list the video vendor returns in the model
MaxOutputLen == 2

(* ---------------- JavaScript values ----------------------------------- *)
Undefined == [k |-> "undefined", v |-> <<>>]
Null == [k |-> "null", v |-> <<>>]
Str(s) == [k |-> "string", v |-> s]
Num(s) == [k |-> "number", v |-> s]
True == [k |-> "boolean", v |-> s_true]
False == [k |-> "boolean", v |-> s_false]
Obj == [k |-> "object", v |-> <<>>]
\* an array holding the single string s
Arr1(s) == [k |-> "array", v |-> s]

\* JavaScript truthiness (the operand of `!`, `&&`, `||`, `if`)
Truthy(x) ==
    CASE x.k = "undefined" -> FALSE
      [] x.k = "null" -> FALSE
      [] x.k = "string" -> x.v # <<>>
      [] x.k = "number" -> x.v # s_zero
      [] x.k = "boolean" -> x.v = s_true
      [] OTHER -> TRUE

\* x === 'literal'
StrictEq(x, s) == x.k = "string" /\ x.v = s

\* String(x), as a template literal `${x}` computes it
JsString(x) ==
    CASE x.k = "undefined" -> s_undefined
      [] x.k = "null" -> s_null
      [] x.k = "object" -> s_objectObject
      [] OTHER -> x.v

\* String.prototype.includes: sub occurs in s as a contiguous run
Includes(s, sub) ==
    \E i \in 0..(Len(s) - Len(sub)) : SubSeq(s, i + 1, i + Len(sub)) = sub

\* x?.includes(sub): "true", "false", or "throw" (TypeError: x.includes is
\* not a function) when x is neither nullish, a string nor an array
OptIncludes(x, sub) ==
    CASE x.k \in {"undefined", "null"} -> "false"
      [] x.k = "string" -> IF Includes(x.v, sub) THEN "true" ELSE "false"
      [] x.k = "array" -> IF x.v = sub THEN "true" ELSE "false"
      [] OTHER -> "throw"

\* JSON.stringify of an object: fields whose value is undefined are dropped
Stringify(obj) ==
    [f \in {g \in DOMAIN obj : obj[g].k # "undefined"} |-> obj[f]]

\* the message of `new Error(x)`
ErrorMessage(x) == IF x.k = "undefined" THEN <<>> ELSE JsString(x)

(* ---------------- responses ------------------------------------------- *)
NoResponse == [statusCode |-> 0, body |-> [kind |-> "none"]]
\* body: ''
EmptyBody == [kind |-> "text"]
\* body: JSON.stringify(obj)
JsonBody(obj) == [kind |-> "json", json |-> Stringify(obj)]
Reply(code, body) == [statusCode |-> code, body |-> body]

(* ---------------- Creative Generator: constants and pure parts -------- *)
\* COSTS: price per generation, as the decimal text the JSON carries
COSTS ==
    [key \in {"dall-e-3-standard", "dall-e-3-hd", "dall-e-3-wide",
              "dall-e-3-wide-hd", "gpt-image-mini", "runway-video"} |->
        CASE key = "dall-e-3-standard" -> Num(s_c004)
          [] key = "dall-e-3-hd" -> Num(s_c008)
          [] key = "dall-e-3-wide" -> Num(s_c008)
          [] key = "dall-e-3-wide-hd" -> Num(s_c012)
          [] key = "gpt-image-mini" -> Num(s_c0015)
          [] key = "runway-video" -> Num(s_c05)]

\* COSTS[costKey]: undefined for a key the table lacks
CostOf(key) == IF key \in DOMAIN COSTS THEN COSTS[key] ELSE Undefined

\* mutant of IsPreflight: the method compared in the wrong letter case
IsPreflightLowerCase(method) == method = "options"

\* event.httpMethod === 'OPTIONS'
IsPreflight(method) == method = "OPTIONS"

\* mutant of MissingRequired: the prompt check forgotten
MissingRequiredTypeOnly(type, prompt) == ~Truthy(type)

\* !type || !prompt
MissingRequired(type, prompt) == ~Truthy(type) \/ ~Truthy(prompt)

\* mutant of SwitchCase: loose equality, so ["image"] == "image"
SwitchCaseLooseEq(type) ==
    IF type.k \in {"string", "array"} /\ type.v = s_image THEN "image"
    ELSE IF type.k \in {"string", "array"} /\ type.v = s_video THEN "video"
    ELSE "default"

\* the branch `switch (type)` takes
SwitchCase(type) ==
    IF StrictEq(type, s_image) THEN "image"
    ELSE IF StrictEq(type, s_video) THEN "video"
    ELSE "default"

\* `Unknown type: ${type}. Use "image" or "video"`
UnknownTypeMessage(type) == s_UnknownType \o JsString(type) \o s_UseImageOrVideo

\* the image cost key: [threw |-> TRUE] when options.size?.includes throws
ImageCostKey(options) ==
    LET wide == OptIncludes(options.size, s_1792)
    IN  IF wide = "throw" THEN [threw |-> TRUE, key |-> ""]
        ELSE IF StrictEq(options.quality, s_hd)
        THEN [threw |-> FALSE,
              key |-> IF wide = "true" THEN "dall-e-3-wide-hd" ELSE "dall-e-3-hd"]
        ELSE [threw |-> FALSE,
              key |-> IF wide = "true" THEN "dall-e-3-wide" ELSE "dall-e-3-standard"]

\* a destructuring default: `name = dflt` applies to undefined only
Default(x, dflt) == IF x.k = "undefined" THEN dflt ELSE x

\* what generateImage returns for the vendor's first data item
ImageResult(item, options) ==
    [image_url |-> item.url,
     revised_prompt |-> item.revised_prompt,
     model |-> Str(s_dalle3),
     size |-> Default(options.size, Str(s_1024x1024)),
     quality |-> Default(options.quality, Str(s_standard))]

\* what generateVideo returns for the vendor's task id
VideoResult(id) ==
    [task_id |-> id,
     status |-> Str(s_processing),
     poll_url |-> Str(s_tasksUrl \o JsString(id)),
     model |-> Str(s_gen3a),
     duration |-> Num(s_five),
     note |-> Str(s_note)]

\* { success: true, type, cost, ...result }: result's fields win a clash
Envelope(type, c, res) ==
    res @@ [success |-> True, type |-> type, cost |-> c]

\* the handler's catch: 500 with error.message || 'Generation failed'
CatchReply(msg, development) ==
    Reply(500, JsonBody(
        [error |-> Str(IF msg # <<>> THEN msg ELSE s_GenerationFailed),
         details |-> IF development THEN Str(s_stack) ELSE Undefined]))

\* customer_id && process.env.SUPABASE_URL
ShouldLogUsage(customer_id, e) == Truthy(customer_id) /\ e.SUPABASE_URL

\* logUsage returns early, without a write, when a setting is absent
LogUsageSkips(e) == ~e.SUPABASE_URL \/ ~e.SUPABASE_SERVICE_ROLE_KEY

\* mutant of LogUsageSettles: the fetch outside the try, a rejection escapes
LogUsageNoCatch(outcome) == IF outcome = "reject" THEN "throws" ELSE "returns"

\* mutant of LogUsageSettles: an HTTP error of the data store is thrown on
LogUsageThrowsOnHttpError(outcome) ==
    IF outcome = "httpError" THEN "throws" ELSE "returns"

\* how the awaited logUsage settles for an outcome of its fetch: the whole
\* body is inside try/catch, and the fetch's HTTP status is never read
LogUsageSettles(outcome) == "returns"

(* ---------------- requests, configuration, vendor answers ------------- *)
Methods == {"OPTIONS", "GET", "POST"}

TypeValues ==
    {Undefined, Str(<<>>), Str(s_image), Str(s_video), Str(s_audio),
     Str(s_Image), Num(s_seven), Arr1(s_image)}
PromptValues == {Undefined, Str(<<>>), Str(s_cat)}
CustomerValues == {Undefined, Str(<<>>), Str(s_c1)}
QualityValues == {Undefined, Str(s_hd), Str(s_standard), Str(s_HD)}
SizeValues ==
    {Undefined, Null, Str(s_1024x1024), Str(s_1792x1024), Str(s_1024x1792),
     Str(s_179x2), Num(s_1792), Arr1(s_1792)}

\* body.options: absent, null, or an object with quality and size
OptionsValues ==
    {[k |-> "undefined", quality |-> Undefined, size |-> Undefined],
     [k |-> "null", quality |-> Undefined, size |-> Undefined]}
    \cup [k : {"object"}, quality : QualityValues, size : SizeValues]

\* event.body: text JSON.parse rejects (or no body), the text `null`, or
\* the text of a JSON value with the four fields the handler reads
NoFields ==
    [type |-> Undefined, prompt |-> Undefined, customer_id |-> Undefined,
     options |-> [k |-> "undefined", quality |-> Undefined, size |-> Undefined]]
Unparseable == [kind |-> "unparseable"] @@ NoFields
NullBody == [kind |-> "null"] @@ NoFields
Bodies ==
    {Unparseable, NullBody}
    \cup [kind : {"json"}, type : TypeValues, prompt : PromptValues,
          customer_id : CustomerValues, options : OptionsValues]

\* event.queryStringParameters?.task_id
TaskIdValues == {Undefined, Str(<<>>), Str(s_abc)}

GenEvents == [httpMethod : Methods, body : Bodies, task_id : {Undefined}]
StatEvents == [httpMethod : Methods, body : {Unparseable}, task_id : TaskIdValues]

\* process.env: which settings are present
Envs ==
    [OPENAI_API_KEY : BOOLEAN, RUNWAY_API_KEY : BOOLEAN, SUPABASE_URL : BOOLEAN,
     SUPABASE_SERVICE_ROLE_KEY : BOOLEAN, development : BOOLEAN]

NoVendor == [kind |-> "none"]

\* what `fetch` + `response.json()` of the image vendor can give:
\* a rejection, { error: { message? } }, { data: [ { url, revised_prompt } ] },
\* or JSON with neither field
ImageAnswers ==
    {[kind |-> "reject", message |-> s_fetchFailed],
     [kind |-> "json", error |-> Obj, errorMessage |-> Str(s_vendorError), hasData |-> FALSE],
     [kind |-> "json", error |-> Obj, errorMessage |-> Undefined, hasData |-> FALSE],
     [kind |-> "json", error |-> Undefined, errorMessage |-> Undefined, hasData |-> FALSE],
     [kind |-> "json", error |-> Undefined, errorMessage |-> Undefined, hasData |-> TRUE,
      item |-> [url |-> Str(s_u1), revised_prompt |-> Str(s_rp)]],
     [kind |-> "json", error |-> Undefined, errorMessage |-> Undefined, hasData |-> TRUE,
      item |-> [url |-> Str(s_u1), revised_prompt |-> Undefined]]}

\* the video vendor: a rejection, { error }, { id } or {}
VideoAnswers ==
    {[kind |-> "reject", message |-> s_fetchFailed]}
    \cup [kind : {"json"}, error : {Undefined, Str(s_vendorError)},
          id : {Undefined, Str(s_t1)}]

\* the task endpoint: a rejection or { error?, status?, output?, progress? };
\* output is absent or a list of at most MaxOutputLen items
OutputItems == {Str(s_u1), Str(s_u2), Null}
OutputLists == UNION {[1..n -> OutputItems] : n \in 0..MaxOutputLen}
OutputValues ==
    {[k |-> "undefined", items |-> <<>>]} \cup [k : {"array"}, items : OutputLists]
StatusValues ==
    {Undefined, Str(s_SUCCEEDED), Str(s_FAILED), Str(s_RUNNING), Str(s_succeeded)}
TaskAnswers ==
    {[kind |-> "reject", message |-> s_fetchFailed]}
    \cup [kind : {"json"}, error : {Undefined}, status : StatusValues,
          output : OutputValues, progress : {Undefined, Num(s_half)}]
    \cup [kind : {"json"}, error : {Str(s_vendorError)}, status : {Str(s_SUCCEEDED)},
          output : {[k |-> "undefined", items |-> <<>>]}, progress : {Undefined}]

\* how the usage write can end: accepted, answered with an HTTP error, or
\* the fetch rejected (data store unreachable)
LogOutcomes == {"ok", "httpError", "reject"}

(* ---------------- state ----------------------------------------------- *)
VARIABLES
    handler,     \* which function serves the request in flight
    pc,          \* where that function is: idle, at an await, or done
    event,       \* the request
    env,         \* process.env during the request
    vendor,      \* what the vendor call returned
    calls,       \* outbound fetches issued for this request, in order
    result,      \* `result` of the Creative Generator
    cost,        \* `cost`
    costKey,     \* `costKey`
    logOutcome,  \* how the usage write ended
    response     \* what the handler returned

vars == <<handler, pc, event, env, vendor, calls, result, cost, costKey,
          logOutcome, response>>

NoResult == [x \in {} |-> Undefined]

Init ==
    /\ handler = "none"
    /\ pc = "idle"
    /\ event = [httpMethod |-> "GET", body |-> Unparseable, task_id |-> Undefined]
    /\ env = [OPENAI_API_KEY |-> FALSE, RUNWAY_API_KEY |-> FALSE, SUPABASE_URL |-> FALSE,
              SUPABASE_SERVICE_ROLE_KEY |-> FALSE, development |-> FALSE]
    /\ vendor = NoVendor
    /\ calls = <<>>
    /\ result = NoResult
    /\ cost = Num(s_zero)
    /\ costKey = ""
    /\ logOutcome = "none"
    /\ response = NoResponse

\* the handler returns `r`
Return(r) == pc' = "done" /\ response' = r

\* state of a fresh invocation (locals as declared, nothing sent yet)
Fresh(h, ev, e) ==
    /\ handler' = h
    /\ event' = ev
    /\ env' = e
    /\ vendor' = NoVendor
    /\ result' = NoResult
    /\ cost' = Num(s_zero)
    /\ costKey' = ""
    /\ logOutcome' = "none"

(* ---------------- Creative Generator: exports.handler ----------------- *)
Fetch(to) == [kind |-> "fetch", to |-> to, reply |-> NoResponse]
Done(r) == [kind |-> "reply", to |-> "", reply |-> r]

\* generateImage up to its fetch: the key check, then the destructuring of
\* options (a TypeError for null), then the request to the image vendor
GenerateImageStart(options, e) ==
    IF ~e.OPENAI_API_KEY THEN Done(CatchReply(s_OpenAiKeyMissing, e.development))
    ELSE IF options.k = "null" THEN Done(CatchReply(s_TypeError, e.development))
    ELSE Fetch("image-vendor")

\* generateVideo up to its fetch
GenerateVideoStart(options, e) ==
    IF ~e.RUNWAY_API_KEY THEN Done(CatchReply(s_RunwayKeyMissing, e.development))
    ELSE IF options.k = "null" THEN Done(CatchReply(s_TypeError, e.development))
    ELSE Fetch("video-vendor")

\* the handler from its entry to the first await, or to its return
GenerateStart(ev, e) ==
    LET b == ev.body
    IN  IF IsPreflight(ev.httpMethod) THEN Done(Reply(200, EmptyBody))
        ELSE IF ev.httpMethod # "POST"
        THEN Done(Reply(405, JsonBody([error |-> Str(s_MethodNotAllowed)])))
        ELSE IF b.kind = "unparseable"
        THEN Done(CatchReply(s_SyntaxError, e.development))
        ELSE IF b.kind = "null"
        THEN Done(CatchReply(s_TypeError, e.development))
        ELSE IF MissingRequired(b.type, b.prompt)
        THEN Done(Reply(400, JsonBody([error |-> Str(s_MissingRequired)])))
        ELSE CASE SwitchCase(b.type) = "image" -> GenerateImageStart(b.options, e)
               [] SwitchCase(b.type) = "video" -> GenerateVideoStart(b.options, e)
               [] OTHER ->
                    Done(Reply(400, JsonBody([error |-> Str(UnknownTypeMessage(b.type))])))

GenReceive ==
    /\ pc = "idle"
    /\ \E ev \in GenEvents, e \in Envs :
        /\ Fresh("generate-creative", ev, e)
        /\ LET s == GenerateStart(ev, e)
           IN  IF s.kind = "reply"
               THEN calls' = <<>> /\ Return(s.reply)
               ELSE calls' = <<s.to>> /\ pc' = "vendor" /\ response' = NoResponse

\* the rest of generateImage / generateVideo once the vendor answered:
\* [threw, message] or [result]
VendorResult(type, options, d) ==
    IF d.kind = "reject"
    THEN [threw |-> TRUE, message |-> d.message, result |-> NoResult]
    ELSE IF SwitchCase(type) = "image"
    THEN IF Truthy(d.error)
         THEN [threw |-> TRUE, message |-> ErrorMessage(d.errorMessage), result |-> NoResult]
         ELSE IF ~d.hasData
         THEN [threw |-> TRUE, message |-> s_TypeError, result |-> NoResult]
         ELSE [threw |-> FALSE, message |-> <<>>, result |-> ImageResult(d.item, options)]
    ELSE IF Truthy(d.error)
         THEN [threw |-> TRUE, message |-> ErrorMessage(d.error), result |-> NoResult]
         ELSE [threw |-> FALSE, message |-> <<>>, result |-> VideoResult(d.id)]

\* the cost key of the case taken
CostKeyFor(type, options) ==
    IF SwitchCase(type) = "image" THEN ImageCostKey(options)
    ELSE [threw |-> FALSE, key |-> "runway-video"]

\* the 200 reply
Success(type, c, res) == Reply(200, JsonBody(Envelope(type, c, res)))

\* the vendor call settles; the handler runs on to the usage write or to
\* its return
GenVendorReturns ==
    /\ handler = "generate-creative"
    /\ pc = "vendor"
    /\ \E d \in IF SwitchCase(event.body.type) = "image" THEN ImageAnswers ELSE VideoAnswers :
        LET b == event.body
            r == VendorResult(b.type, b.options, d)
            ck == CostKeyFor(b.type, b.options)
        IN  /\ vendor' = d
            /\ IF r.threw
               THEN /\ Return(CatchReply(r.message, env.development))
                    /\ UNCHANGED <<result, cost, costKey, logOutcome, calls>>
               ELSE IF ck.threw
               THEN /\ Return(CatchReply(s_TypeError, env.development))
                    /\ result' = r.result
                    /\ UNCHANGED <<cost, costKey, logOutcome, calls>>
               ELSE /\ result' = r.result
                    /\ costKey' = ck.key
                    /\ cost' = CostOf(ck.key)
                    /\ IF ~ShouldLogUsage(b.customer_id, env)
                       THEN /\ Return(Success(b.type, CostOf(ck.key), r.result))
                            /\ UNCHANGED <<logOutcome, calls>>
                       ELSE IF LogUsageSkips(env)
                       THEN /\ Return(Success(b.type, CostOf(ck.key), r.result))
                            /\ logOutcome' = "skipped"
                            /\ UNCHANGED calls
                       ELSE /\ calls' = Append(calls, "usage-store")
                            /\ logOutcome' = "pending"
                            /\ pc' = "log"
                            /\ UNCHANGED response
    /\ UNCHANGED <<handler, event, env>>

\* the usage write settles; the handler returns
GenLogReturns ==
    /\ handler = "generate-creative"
    /\ pc = "log"
    /\ \E o \in LogOutcomes :
        /\ logOutcome' = o
        /\ IF LogUsageSettles(o) = "throws"
           THEN Return(CatchReply(s_fetchFailed, env.development))
           ELSE Return(Success(event.body.type, cost, result))
    /\ UNCHANGED <<handler, event, env, vendor, calls, result, cost, costKey>>

(* ---------------- Video Status Checker: exports.handler --------------- *)
\* data.output?.[0]
FirstOutput(output) ==
    IF output.k = "array" /\ Len(output.items) >= 1 THEN output.items[1] ELSE Undefined

\* mutant of MapStatus: the vendor's status compared ignoring letter case
MapStatusAnyCase(data) ==
    IF StrictEq(data.status, s_SUCCEEDED) \/ StrictEq(data.status, s_succeeded)
    THEN [status |-> Str(s_completed), videoUrl |-> FirstOutput(data.output)]
    ELSE IF StrictEq(data.status, s_FAILED)
    THEN [status |-> Str(s_failed), videoUrl |-> Null]
    ELSE [status |-> Str(s_processing), videoUrl |-> Null]

\* the mapping of the vendor's status to status and videoUrl
MapStatus(data) ==
    IF StrictEq(data.status, s_SUCCEEDED)
    THEN [status |-> Str(s_completed), videoUrl |-> FirstOutput(data.output)]
    ELSE IF StrictEq(data.status, s_FAILED)
    THEN [status |-> Str(s_failed), videoUrl |-> Null]
    ELSE [status |-> Str(s_processing), videoUrl |-> Null]

\* the catch of the status handler: 500 with error.message
StatusCatchReply(msg) == Reply(500, JsonBody([error |-> Str(msg)]))

\* the handler from its entry to the fetch, or to its return
StatusStart(ev, e) ==
    IF IsPreflight(ev.httpMethod) THEN Done(Reply(200, EmptyBody))
    ELSE IF ev.httpMethod # "GET"
    THEN Done(Reply(405, JsonBody([error |-> Str(s_MethodNotAllowed)])))
    ELSE IF ~Truthy(ev.task_id)
    THEN Done(Reply(400, JsonBody([error |-> Str(s_MissingTaskId)])))
    ELSE IF ~e.RUNWAY_API_KEY THEN Done(StatusCatchReply(s_RunwayKeyMissing))
    ELSE Fetch("task-endpoint")

StatReceive ==
    /\ pc = "idle"
    /\ \E ev \in StatEvents, e \in Envs :
        /\ Fresh("video-status", ev, e)
        /\ LET s == StatusStart(ev, e)
           IN  IF s.kind = "reply"
               THEN calls' = <<>> /\ Return(s.reply)
               ELSE calls' = <<s.to>> /\ pc' = "vendor" /\ response' = NoResponse

\* the reply once the task endpoint answered
StatusReply(taskId, d) ==
    IF d.kind = "reject" THEN StatusCatchReply(d.message)
    ELSE IF Truthy(d.error) THEN StatusCatchReply(ErrorMessage(d.error))
    ELSE LET m == MapStatus(d)
         IN  Reply(200, JsonBody(
                 [task_id |-> taskId,
                  status |-> m.status,
                  video_url |-> m.videoUrl,
                  progress |-> d.progress,
                  raw_status |-> d.status]))

StatVendorReturns ==
    /\ handler = "video-status"
    /\ pc = "vendor"
    /\ \E d \in TaskAnswers :
        /\ vendor' = d
        /\ Return(StatusReply(event.task_id, d))
    /\ UNCHANGED <<handler, event, env, calls, result, cost, costKey, logOutcome>>

Next ==
    \/ GenReceive
    \/ GenVendorReturns
    \/ GenLogReturns
    \/ StatReceive
    \/ StatVendorReturns

Spec == Init /\ [][Next]_vars

(* ---------------- the claims ------------------------------------------ *)
Gen == handler = "generate-creative"
Stat == handler = "video-status"
Finished == pc = "done"
HasCall(to) == \E i \in 1..Len(calls) : calls[i] = to

\* a field that is absent, null or the empty string
Lacks(x) == x.k \in {"undefined", "null"} \/ x = Str(<<>>)

\* the vendor answered with JSON that carries no error field (and, for an
\* image, the generated item)
VendorSucceeded ==
    /\ Gen
    /\ vendor.kind = "json"
    /\ vendor.error = Undefined
    /\ (event.body.type = Str(s_image) => vendor.hasData)

\* C1: once the usage logger has been invoked, whatever its outcome (write
\* accepted, data store answering an error, data store unreachable, service
\* credential absent), the request ends with 200 and the body is the envelope
\* fixed by the request and the vendor's answer alone.
C1_UsageLogNeverChangesResponse ==
    (Gen /\ Finished /\ logOutcome # "none") =>
        /\ logOutcome \in {"skipped", "ok", "httpError", "reject"}
        /\ response.statusCode = 200
        /\ response.body.kind = "json"
        /\ LET j == response.body.json
               b == event.body
               r == VendorResult(b.type, b.options, vendor).result
           IN  /\ j.success = True
               /\ j.type = b.type
               /\ j.cost = CostOf(CostKeyFor(b.type, b.options).key)
               /\ j.cost.k = "number"
               /\ DOMAIN j = {"success", "type", "cost"}
                               \cup {f \in DOMAIN r : r[f] # Undefined}
               /\ \A f \in DOMAIN r : r[f] # Undefined => j[f] = r[f]

C1_Witness ==
    /\ Gen /\ Finished /\ logOutcome = "reject"
    /\ response.statusCode = 200
    /\ event.body.type = Str(s_image)

\* C2: every POST whose body cannot be parsed is answered 400.
C2_MalformedBodyIs400 ==
    (Gen /\ Finished /\ event.httpMethod = "POST" /\ event.body.kind = "unparseable")
        => response.statusCode = 400

C5_StatusProjection ==
    (Stat /\ Finished /\ response.statusCode = 200 /\ response.body.kind = "json") =>
        LET j == response.body.json
            d == vendor
        IN  /\ d.status = Str(s_SUCCEEDED) =>
                 /\ j.status = Str(s_completed)
                 /\ (d.output.k = "array" /\ Len(d.output.items) >= 1)
                      => j.video_url = d.output.items[1]
            /\ d.status = Str(s_FAILED) => j.status = Str(s_failed)
            /\ d.status \notin {Str(s_SUCCEEDED), Str(s_FAILED)}
                 => j.status = Str(s_processing)
            /\ IF d.status = Undefined THEN "raw_status" \notin DOMAIN j
               ELSE j.raw_status = d.status

C5_Witness ==
    /\ Stat /\ Finished /\ response.statusCode = 200
    /\ vendor.kind = "json" /\ vendor.status = Str(s_SUCCEEDED)
    /\ vendor.output.k = "array" /\ Len(vendor.output.items) = 2
    /\ vendor.output.items[1] = Str(s_u2)
    /\ response.body.json.video_url = Str(s_u2)
    /\ response.body.json.status = Str(s_completed)

\* C6: every 200 answer of the Status Checker has the field video_url; it
\* is non-null only when status is completed, and null when the vendor says
\* SUCCEEDED without an output list.
C6_VideoUrlAlwaysPresent ==
    (Stat /\ Finished /\ response.statusCode = 200 /\ response.body.kind = "json") =>
        LET j == response.body.json
        IN  /\ "video_url" \in DOMAIN j
            /\ j.video_url # Null => j.status = Str(s_completed)
            /\ j.status # Str(s_completed) => j.video_url = Null
            /\ (vendor.status = Str(s_SUCCEEDED) /\ vendor.output.k = "undefined")
                 => j.video_url = Null

\* C7: whenever the vendor call succeeded, the cost key resolves to an entry
\* of the price table (the 2x2 choice for an image, runway-video for a
\* video) and the 200 answer carries that entry's cost.
C7_CostKeyAlwaysResolves ==
    (Finished /\ VendorSucceeded) =>
        LET b == event.body
            hd == b.options.quality = Str(s_hd)
        IN  /\ costKey \in DOMAIN COSTS
            /\ response.statusCode = 200
            /\ response.body.json.cost = COSTS[costKey]
            /\ b.type = Str(s_video) => costKey = "runway-video"
            /\ b.type = Str(s_image) =>
                 /\ costKey \in {"dall-e-3-wide-hd", "dall-e-3-hd",
                                 "dall-e-3-wide", "dall-e-3-standard"}
                 /\ b.options.size.k = "string" =>
                      costKey = IF Includes(b.options.size.v, s_1792)
                                THEN (IF hd THEN "dall-e-3-wide-hd" ELSE "dall-e-3-wide")
                                ELSE (IF hd THEN "dall-e-3-hd" ELSE "dall-e-3-standard")

\* C8: a request with method OPTIONS is answered 200 with an empty body and
\* without any outbound call, in both handlers.
C8_PreflightAlways200Empty ==
    (pc # "idle" /\ event.httpMethod = "OPTIONS") =>
        /\ Finished
        /\ response.statusCode = 200
        /\ response.body = [kind |-> "text"]
        /\ calls = <<>>

C8_Witness ==
    /\ Gen /\ Finished /\ event.httpMethod = "OPTIONS"
    /\ event.body.kind = "json" /\ event.body.type = Str(s_image)
    /\ event.body.prompt = Str(s_cat) /\ event.body.customer_id = Str(s_c1)
    /\ env.OPENAI_API_KEY /\ env.SUPABASE_URL /\ env.SUPABASE_SERVICE_ROLE_KEY
    /\ response.statusCode = 200

\* C9: after a successful vendor call the usage logger is invoked exactly
\* when customer_id is given and the data store's URL is configured; the
\* vendor call comes first, then at most one usage write, then the answer.
C9_UsageLoggerInvokedIffConfigured ==
    /\ (Finished /\ VendorSucceeded) =>
          ((logOutcome # "none")
              <=> (Truthy(event.body.customer_id) /\ env.SUPABASE_URL))
    /\ Gen => \/ calls = <<>>
              \/ calls \in {<<"image-vendor">>, <<"video-vendor">>}
              \/ /\ calls \in {<<"image-vendor", "usage-store">>,
                               <<"video-vendor", "usage-store">>}
                 /\ vendor # NoVendor
    /\ (Gen /\ pc \in {"vendor", "log"}) => response = NoResponse

\* C10: a request of the Creative Generator that is answered with anything
\* but 200 has issued no write to the usage data store.
C10_NoUsageWriteUnless200 ==
    (Gen /\ Finished /\ response.statusCode # 200) => ~HasCall("usage-store")

C10_Witness ==
    /\ Gen /\ Finished /\ response.statusCode = 500
    /\ event.body.customer_id = Str(s_c1)
    /\ env.SUPABASE_URL /\ env.SUPABASE_SERVICE_ROLE_KEY
    /\ calls = <<"image-vendor">>
====
